---- MODULE Spec2Model ----
(***************************************************************************)
(* The client-side game-state estimator of spacebot: the Analyzer, the     *)
(* per-player histories (Trajectory, ScoreHistory), the bullet list and    *)
(* the geometry they use.                                                  *)
(*                                                                         *)
(* Conventions                                                             *)
(*  - An Instant is a number of ticks; TicksPerSec ticks make one second.  *)
(*    A Duration is a non-negative number of ticks.                        *)
(*  - An f32 is a pair <<n, d>> with d >= 0: the rational n/d in lowest    *)
(*    terms when d > 0, +Inf = <<1,0>>, -Inf = <<-1,0>>, NaN = <<0,0>>.    *)
(*    Rounding of f32 is not modelled; the inputs are small integers.      *)
(*  - A call that can panic returns [tag |-> "ok", val |-> v] or           *)
(*    [tag |-> "panic", val |-> message].                                  *)
(*  - A build is [overflow_checks, instant_sub_panics]: whether integer    *)
(*    overflow panics (debug profile) or wraps (release profile), and      *)
(*    whether Instant - Instant panics on a later right-hand side (older   *)
(*    std) or saturates to zero (newer std).                               *)
(***************************************************************************)
EXTENDS Integers, Sequences, FiniteSets, TLC

VARIABLES own_player_id, players, bullets, crashed, call, trajectory, score_history

vars == <<own_player_id, players, bullets, crashed, call, trajectory, score_history>>

(***************************************************************************)
(* Bounds of the model.                                                    *)
(***************************************************************************)
MaxId == 1
MaxCoord == 1
MaxAngle == 0
MaxScore == 0
MaxTime == 1
MaxSnapshotPlayers == 2
MaxSnapshotBullets == 1
MaxSamples == 2
TicksPerSec == 2
MaxHistTime == 3
MaxHistCoord == 1
MaxHistScore == 2
MaxHistSamples == 3
MaxGeomCoord == 2
MaxHorizonHalves == 2

BULLET_SPEED == 1

PlayerIds == 0..MaxId

Builds == [overflow_checks : BOOLEAN, instant_sub_panics : BOOLEAN]

Ok(v) == [tag |-> "ok", val |-> v]
Panic(msg) == [tag |-> "panic", val |-> msg]

(***************************************************************************)
(* f32 arithmetic on the representation <<n, d>>.                          *)
(***************************************************************************)
Abs(n) == IF n < 0 THEN -n ELSE n

RECURSIVE Gcd(_, _)
Gcd(a, b) == IF b = 0 THEN a ELSE Gcd(b, a % b)

NaN == <<0, 0>>
Sign(n) == IF n > 0 THEN 1 ELSE IF n < 0 THEN -1 ELSE 0

\* the f32 n/d for integers n and d >= 0 (IEEE: x/0 is +-Inf, 0/0 is NaN)
Ratio(n, d) ==
    IF d = 0 THEN <<Sign(n), 0>>
    ELSE LET g == Gcd(Abs(n), d) IN <<n \div g, d \div g>>

F32(n) == <<n, 1>>

IsFinite(f) == f[2] > 0

\* f32 / f32 where the divisor is a non-negative integer-valued f32
F32Div(f, k) ==
    IF f = NaN THEN NaN
    ELSE IF ~IsFinite(f) THEN f
    ELSE Ratio(f[1], f[2] * k)

\* f32 + f32
F32Add(f, g) ==
    IF f = NaN \/ g = NaN THEN NaN
    ELSE IF ~IsFinite(f) THEN (IF ~IsFinite(g) /\ g # f THEN NaN ELSE f)
    ELSE IF ~IsFinite(g) THEN g
    ELSE Ratio(f[1] * g[2] + g[1] * f[2], f[2] * g[2])

F32Abs(f) == <<Abs(f[1]), f[2]>>

(***************************************************************************)
(* Geometry: Position and Velocity.                                        *)
(***************************************************************************)
Position_new(x, y) == [x |-> x, y |-> y]

Velocity_new(dx, dy) == [dx |-> dx, dy |-> dy]

Velocity_zeros == Velocity_new(F32(0), F32(0))

\* Duration::as_secs: the whole seconds of a duration
as_secs(duration) == duration \div TicksPerSec

velocity_to(self, dest, time) ==
    Velocity_new(F32Div(F32(dest.x - self.x), as_secs(time)),
                 F32Div(F32(dest.y - self.y), as_secs(time)))

Velocity_abs(v) == Velocity_new(F32Abs(v.dx), F32Abs(v.dy))

\* angles are multiples of a quarter turn: cos and sin of angle * pi/2
Cos(angle) == CASE angle % 4 = 0 -> 1 [] angle % 4 = 2 -> -1 [] OTHER -> 0
Sin(angle) == CASE angle % 4 = 1 -> 1 [] angle % 4 = 3 -> -1 [] OTHER -> 0

Velocity_with_angle(angle, speed) ==
    Velocity_new(F32(speed * Cos(angle)), F32(speed * Sin(angle)))

\* atan is one-to-one on the extended reals: the angle is kept as its tangent
Atan(f) == [atan |-> f]

Position_angle_to(self, other) ==
    Atan(IF other.x - self.x >= 0
         THEN Ratio(other.y - self.y, other.x - self.x)
         ELSE Ratio(-(other.y - self.y), -(other.x - self.x)))

(***************************************************************************)
(* Instant - Instant.                                                      *)
(***************************************************************************)
Instant_sub(build, later, earlier) ==
    IF later >= earlier THEN Ok(later - earlier)
    ELSE IF build.instant_sub_panics
         THEN Panic("supplied instant is later than self")
         ELSE Ok(0)

(***************************************************************************)
(* Trajectory: a sequence of <<position, instant>>.                        *)
(***************************************************************************)
Trajectory_new == << >>

Trajectory_push(self, position, time) == Append(self, <<position, time>>)

last_position(self) ==
    IF Len(self) = 0 THEN Panic("called Option::unwrap() on a None value")
    ELSE Ok(self[Len(self)][1])

\* self.positions.get(self.positions.len() - 2) on a usize length
get_len_minus_2(build, self) ==
    IF Len(self) >= 2 THEN Ok([some |-> TRUE, at |-> Len(self) - 1])
    ELSE IF build.overflow_checks THEN Panic("attempt to subtract with overflow")
    ELSE Ok([some |-> FALSE, at |-> 0])

last_velocity(build, self) ==
    IF Len(self) = 0 THEN Panic("called Option::unwrap() on a None value")
    ELSE LET last == self[Len(self)]
             prev == get_len_minus_2(build, self)
         IN  IF prev.tag = "panic" THEN prev
             ELSE IF ~prev.val.some THEN Ok(Velocity_zeros)
             ELSE LET p == self[prev.val.at]
                      d == Instant_sub(build, last[2], p[2])
                  IN  IF d.tag = "panic" THEN d
                      ELSE Ok(velocity_to(p[1], last[1], d.val))

Velocity_add(v, w) == Velocity_new(F32Add(v.dx, w.dx), F32Add(v.dy, w.dy))

\* the fold over the pairs of successive samples, from pair i on
RECURSIVE fold_abs_velocity(_, _, _, _)
fold_abs_velocity(build, self, i, acc) ==
    IF i >= Len(self) THEN Ok(acc)
    ELSE LET d == Instant_sub(build, self[i + 1][2], self[i][2])
         IN  IF d.tag = "panic" THEN d
             ELSE fold_abs_velocity(build, self, i + 1,
                      [items |-> acc.items + 1,
                       sum |-> Velocity_add(acc.sum,
                                   Velocity_abs(velocity_to(self[i][1], self[i + 1][1], d.val)))])

ave_abs_velocity(build, self) ==
    LET folded == fold_abs_velocity(build, self, 1, [items |-> 0, sum |-> Velocity_zeros])
    IN  IF folded.tag = "panic" THEN folded
        ELSE IF folded.val.items = 0 THEN Ok(Velocity_zeros)
        ELSE Ok(Velocity_new(F32Div(folded.val.sum.dx, folded.val.items),
                             F32Div(folded.val.sum.dy, folded.val.items)))

(***************************************************************************)
(* ScoreHistory: a sequence of <<score, instant>>.                         *)
(***************************************************************************)
ScoreHistory_new == << >>

ScoreHistory_push(self, score, time) == Append(self, <<score, time>>)

last_score(self) ==
    IF Len(self) = 0 THEN Panic("called Option::unwrap() on a None value")
    ELSE Ok(self[Len(self)][1])

\* iter().rev().find_map(..): the score of the last pushed sample at or before since
RECURSIVE rev_find(_, _, _)
rev_find(self, i, since) ==
    IF i = 0 THEN [some |-> FALSE, score |-> 0]
    ELSE IF self[i][2] <= since THEN [some |-> TRUE, score |-> self[i][1]]
    ELSE rev_find(self, i - 1, since)

\* a - b on u32: a wrapped difference is kept as [wrapped |-> a - b], the u32 2^32 + (a - b)
u32_sub(build, a, b) ==
    IF a >= b THEN Ok(a - b)
    ELSE IF build.overflow_checks THEN Panic("attempt to subtract with overflow")
    ELSE [tag |-> "wrapped", val |-> a - b]

score_since(build, self, since) ==
    LET found == rev_find(self, Len(self), since)
        start_score == IF found.some THEN found.score ELSE 0
        last == last_score(self)
    IN  IF last.tag = "panic" THEN last
        ELSE u32_sub(build, last.val, start_score)

(***************************************************************************)
(* ScoreHistory::project.  Its u32 values can be large, so a u32 is kept   *)
(* here as [top, low], the number top * 2^31 + low with top in {0, 1} and  *)
(* low in 0..2^31 - 1.  The horizon `after` is [far, halves]: halves half  *)
(* lookbacks (multiples of 5 s), or, when far, a duration of 2^32          *)
(* lookbacks or more, which Duration can hold.                             *)
(***************************************************************************)
LOOKBACK_SECS == 10

LowMax == 2147483647

U32(n) == [top |-> 0, low |-> n]

U32_MAX == [top |-> 1, low |-> LowMax]

\* Instant::now() - past_duration
lookback_start(now) == now - LOOKBACK_SECS * TicksPerSec

\* (past_score as f32 * (after.as_millis() as f32 / past_duration.as_millis() as f32)) as u32
\* for a past_score that is small, or (wrapped) 2^32 - k with a small k, which is 2^32
\* as an f32; the cast truncates and saturates at u32::MAX
scaled_delta(past, after) ==
    IF past.tag = "wrapped"
    THEN IF after.far THEN U32_MAX
         ELSE IF after.halves = 0 THEN U32(0)
         ELSE IF after.halves = 1 THEN [top |-> 1, low |-> 0]
         ELSE U32_MAX
    ELSE IF after.far THEN (IF past.val = 0 THEN U32(0) ELSE U32_MAX)
         ELSE U32((past.val * after.halves) \div 2)

\* a + b on u32, for a small a
u32_add(build, a, b) ==
    LET carry == b.low > LowMax - a
        low == IF carry THEN a - (LowMax - b.low) - 1 ELSE a + b.low
        top == IF carry THEN b.top + 1 ELSE b.top
    IN  IF top < 2 THEN Ok([top |-> top, low |-> low])
        ELSE IF build.overflow_checks THEN Panic("attempt to add with overflow")
        ELSE [tag |-> "wrapped", val |-> [top |-> top - 2, low |-> low]]

project(build, self, now, after) ==
    LET past_score == score_since(build, self, lookback_start(now))
    IN  IF past_score.tag = "panic" THEN past_score
        ELSE u32_add(build, last_score(self).val, scaled_delta(past_score, after))

(***************************************************************************)
(* The inputs: snapshots (GameState) and their parts.                      *)
(***************************************************************************)
SeqsUpTo(S, n) == UNION {[1..k -> S] : k \in 0..n}

Instants == 0..MaxTime

PlayerStates == [id : PlayerIds, x : 0..MaxCoord, y : {0}, angle : 0..MaxAngle]

\* a bullet of player i at x = i, flying along the x axis
BulletStates == {[x |-> i, y |-> 0, angle |-> 0, player_id |-> i] : i \in PlayerIds}

\* the scoreboards that matter to a list of player states: entries of other ids are never read
Scoreboards(player_states) ==
    UNION {[D -> 0..MaxScore] :
              D \in SUBSET {player_states[i].id : i \in 1..Len(player_states)}}

GameStates ==
    UNION {[players : {ps}, bullets : SeqsUpTo(BulletStates, MaxSnapshotBullets),
            scoreboard : Scoreboards(ps)] :
              ps \in SeqsUpTo(PlayerStates, MaxSnapshotPlayers)}

(***************************************************************************)
(* HashMap<u32, _> as a function on the set of its keys.                   *)
(***************************************************************************)
HashMap_new == << >>

HashMap_remove(map, key) == [k \in DOMAIN map \ {key} |-> map[k]]

HashMap_insert(map, key, value) ==
    [k \in DOMAIN map \cup {key} |-> IF k = key THEN value ELSE map[k]]

\* scoreboard.get(&id).unwrap()
scoreboard_get_unwrap(scoreboard, id) ==
    IF id \in DOMAIN scoreboard THEN Ok(scoreboard[id])
    ELSE Panic("called Option::unwrap() on a None value")

(***************************************************************************)
(* Player.                                                                 *)
(***************************************************************************)
\* with_state that forgets the first trajectory sample
Player_with_state_unsampled(state, scoreboard, time) ==
    LET score == scoreboard_get_unwrap(scoreboard, state.id)
    IN  IF score.tag = "panic" THEN score
        ELSE Ok([id |-> state.id,
                 angle |-> state.angle,
                 position |-> Position_new(state.x, state.y),
                 trajectory |-> Trajectory_new,
                 score_history |-> ScoreHistory_push(ScoreHistory_new, score.val, time),
                 last_update |-> time])

Player_with_state(state, scoreboard, time) ==
    LET position == Position_new(state.x, state.y)
        trajectory_ == Trajectory_push(Trajectory_new, position, time)
        score == scoreboard_get_unwrap(scoreboard, state.id)
    IN  IF score.tag = "panic" THEN score
        ELSE Ok([id |-> state.id,
                 angle |-> state.angle,
                 position |-> position,
                 trajectory |-> trajectory_,
                 score_history |-> ScoreHistory_push(ScoreHistory_new, score.val, time),
                 last_update |-> time])

\* the position field left at its old value
Player_push_state_stale(self, state, scoreboard, time) ==
    IF self.id # state.id THEN Panic("assertion failed: (left == right)")
    ELSE LET position == Position_new(state.x, state.y)
             score == scoreboard_get_unwrap(scoreboard, state.id)
         IN  IF score.tag = "panic" THEN score
             ELSE Ok([id |-> self.id,
                      angle |-> state.angle,
                      position |-> self.position,
                      trajectory |-> Trajectory_push(self.trajectory, position, time),
                      score_history |-> ScoreHistory_push(self.score_history, score.val, time),
                      last_update |-> time])

Player_push_state(self, state, scoreboard, time) ==
    IF self.id # state.id THEN Panic("assertion failed: (left == right)")
    ELSE LET position == Position_new(state.x, state.y)
             score == scoreboard_get_unwrap(scoreboard, state.id)
         IN  IF score.tag = "panic" THEN score
             ELSE Ok([id |-> self.id,
                      angle |-> state.angle,
                      position |-> position,
                      trajectory |-> Trajectory_push(self.trajectory, position, time),
                      score_history |-> ScoreHistory_push(self.score_history, score.val, time),
                      last_update |-> time])

(***************************************************************************)
(* Bullet.                                                                 *)
(***************************************************************************)
Bullet_new(state) ==
    [position |-> Position_new(state.x, state.y),
     velocity |-> Velocity_with_angle(state.angle, BULLET_SPEED),
     player_id |-> state.player_id]

\* the new bullets appended to the old list instead of replacing it
collect_bullets_extend(bullet_states) ==
    bullets \o [i \in 1..Len(bullet_states) |-> Bullet_new(bullet_states[i])]

\* state.bullets.iter().map(|state| Bullet::new(&state)).collect()
collect_bullets(bullet_states) ==
    [i \in 1..Len(bullet_states) |-> Bullet_new(bullet_states[i])]

(***************************************************************************)
(* Analyzer::push_state, the loop over state.players.  self_players is     *)
(* self.players, from which the loop removes; new_players is the local     *)
(* map.  On a panic the local map is dropped and self.players keeps what   *)
(* the loop left in it.                                                    *)
(***************************************************************************)
RECURSIVE push_players_from(_, _, _, _, _, _)
push_players_from(i, self_players, new_players, player_states, scoreboard, time) ==
    IF i > Len(player_states)
    THEN [tag |-> "ok", self_players |-> self_players, players |-> new_players]
    ELSE LET player_state == player_states[i]
             tracked == player_state.id \in DOMAIN self_players
             rest == HashMap_remove(self_players, player_state.id)
             player == IF tracked
                       THEN Player_push_state(self_players[player_state.id],
                                              player_state, scoreboard, time)
                       ELSE Player_with_state(player_state, scoreboard, time)
         IN  IF player.tag = "panic"
             THEN [tag |-> "panic", self_players |-> rest, players |-> new_players]
             ELSE push_players_from(i + 1, rest,
                                    HashMap_insert(new_players, player.val.id, player.val),
                                    player_states, scoreboard, time)

\* a loop that starts from the old map instead of an empty one: nobody is evicted
push_players_keep(self_players, player_states, scoreboard, time) ==
    push_players_from(1, self_players, self_players, player_states, scoreboard, time)

push_players(self_players, player_states, scoreboard, time) ==
    push_players_from(1, self_players, HashMap_new, player_states, scoreboard, time)

(***************************************************************************)
(* The Analyzer.                                                           *)
(***************************************************************************)
Init ==
    /\ own_player_id = 0
    /\ players = HashMap_new
    /\ bullets = << >>
    /\ crashed = FALSE
    /\ call = [op |-> "new", arg |-> << >>, ret |-> Ok(<< >>)]
    /\ trajectory = Trajectory_new
    /\ score_history = ScoreHistory_new

\* the ids of state.players, in order
player_ids(state) == [i \in 1..Len(state.players) |-> state.players[i].id]

\* some player of the snapshot has no entry in its scoreboard
malformed(state) ==
    \E i \in 1..Len(state.players) : state.players[i].id \notin DOMAIN state.scoreboard

\* the histories stay within MaxSamples samples
CanGrow(state) ==
    \A i \in 1..Len(state.players) :
        state.players[i].id \in DOMAIN players
            => Len(players[state.players[i].id].trajectory) < MaxSamples

push_state(state, time) ==
    /\ ~crashed
    /\ CanGrow(state)
    /\ LET r == push_players(players, state.players, state.scoreboard, time)
           arg == [player_ids |-> player_ids(state), bullets |-> state.bullets,
                   malformed |-> malformed(state), tracked |-> DOMAIN players,
                   old_bullets |-> Len(bullets)]
       IN  IF r.tag = "panic"
           THEN /\ players' = r.self_players
                /\ bullets' = bullets
                /\ crashed' = TRUE
                /\ call' = [op |-> "push_state", arg |-> arg,
                            ret |-> Panic("called Option::unwrap() on a None value")]
           ELSE /\ players' = r.players
                /\ bullets' = collect_bullets(state.bullets)
                /\ crashed' = FALSE
                /\ call' = [op |-> "push_state", arg |-> arg, ret |-> Ok(<< >>)]
    /\ UNCHANGED <<own_player_id, trajectory, score_history>>

\* self.players.get(&id).unwrap()
player_of(map, id) ==
    IF id \in DOMAIN map THEN Ok(map[id])
    ELSE Panic("called Option::unwrap() on a None value")

\* a read that takes the bullets it looked at out of the list
Read_draining(op, arg, ret) ==
    /\ ~crashed
    /\ call' = [op |-> op, arg |-> arg, ret |-> ret]
    /\ crashed' = (ret.tag = "panic")
    /\ bullets' = << >>
    /\ UNCHANGED <<own_player_id, players, trajectory, score_history>>

\* a read of the Analyzer: the result is recorded, a panic ends the program
Read(op, arg, ret) ==
    /\ ~crashed
    /\ call' = [op |-> op, arg |-> arg, ret |-> ret]
    /\ crashed' = (ret.tag = "panic")
    /\ UNCHANGED <<own_player_id, players, bullets, trajectory, score_history>>

player(id) == Read("player", id, player_of(players, id))

set_own_player_id(id) ==
    /\ ~crashed
    /\ own_player_id' = id
    /\ call' = [op |-> "set_own_player_id", arg |-> id, ret |-> Ok(<< >>)]
    /\ UNCHANGED <<players, bullets, crashed, trajectory, score_history>>

own_player == Read("own_player", own_player_id, player_of(players, own_player_id))

Analyzer_angle_to(map, own_id, target) ==
    LET own == player_of(map, own_id)
        other == player_of(map, target)
    IN  IF own.tag = "panic" THEN own
        ELSE IF other.tag = "panic" THEN other
        ELSE Ok(Position_angle_to(own.val.position, other.val.position))

angle_to(target) ==
    Read("angle_to", target, Analyzer_angle_to(players, own_player_id, target))

\* unimplemented!()
bullets_to_collide(until) ==
    Read("bullets_to_collide", until, Panic("not yet implemented"))

bullets_to_collide_call == \E until \in Instants : bullets_to_collide(until)

\* the history queries on a tracked player: analyzer.player(id).trajectory.last_position() ..
player_last_position(id) ==
    /\ id \in DOMAIN players
    /\ Read("player_last_position", id, last_position(players[id].trajectory))

player_last_velocity(build, id) ==
    /\ id \in DOMAIN players
    /\ Read("player_last_velocity", id, last_velocity(build, players[id].trajectory))

player_ave_abs_velocity(build, id) ==
    /\ id \in DOMAIN players
    /\ Read("player_ave_abs_velocity", id, ave_abs_velocity(build, players[id].trajectory))

player_last_score(id) ==
    /\ id \in DOMAIN players
    /\ Read("player_last_score", id, last_score(players[id].score_history))

player_score_since(build, id, since) ==
    /\ id \in DOMAIN players
    /\ Read("player_score_since", [id |-> id, since |-> since],
            score_since(build, players[id].score_history, since))

player_last_position_call == \E id \in PlayerIds : player_last_position(id)

player_last_velocity_call ==
    \E build \in Builds, id \in PlayerIds : player_last_velocity(build, id)

player_ave_abs_velocity_call ==
    \E build \in Builds, id \in PlayerIds : player_ave_abs_velocity(build, id)

player_last_score_call == \E id \in PlayerIds : player_last_score(id)

player_score_since_call ==
    \E build \in Builds, id \in PlayerIds, since \in Instants :
        player_score_since(build, id, since)

push_state_call ==
    /\ ~crashed
    /\ \E state \in GameStates, time \in Instants : push_state(state, time)

player_call == \E id \in PlayerIds : player(id)

set_own_player_id_call == \E id \in PlayerIds : set_own_player_id(id)

angle_to_call == \E target \in PlayerIds : angle_to(target)

Next ==
    \/ push_state_call
    \/ player_call
    \/ set_own_player_id_call
    \/ own_player
    \/ angle_to_call
    \/ bullets_to_collide_call
    \/ player_last_position_call
    \/ player_last_velocity_call
    \/ player_ave_abs_velocity_call
    \/ player_last_score_call
    \/ player_score_since_call

Spec == Init /\ [][Next]_vars

(***************************************************************************)
(* A Trajectory on its own: built by push, read by last_position and       *)
(* last_velocity.                                                          *)
(***************************************************************************)
HistInstants == 0..MaxHistTime

HistPositions == {Position_new(x, y) : x \in 0..MaxHistCoord, y \in 0..MaxHistCoord}

Trajectory_push_call(position, time) ==
    /\ ~crashed
    /\ Len(trajectory) < MaxHistSamples
    /\ trajectory' = Trajectory_push(trajectory, position, time)
    /\ call' = [op |-> "Trajectory::push", arg |-> <<position, time>>, ret |-> Ok(<< >>)]
    /\ UNCHANGED <<own_player_id, players, bullets, crashed, score_history>>

last_position_call ==
    Read("last_position", trajectory, last_position(trajectory))

last_velocity_call(build) ==
    Read("last_velocity", [build |-> build, self |-> trajectory],
         last_velocity(build, trajectory))

ave_abs_velocity_call(build) ==
    Read("ave_abs_velocity", [build |-> build, self |-> trajectory],
         ave_abs_velocity(build, trajectory))

NextTrajectory ==
    \/ \E position \in HistPositions, time \in HistInstants :
           Trajectory_push_call(position, time)
    \/ last_position_call
    \/ \E build \in Builds : last_velocity_call(build)
    \/ \E build \in Builds : ave_abs_velocity_call(build)

SpecTrajectory == Init /\ [][NextTrajectory]_vars

(***************************************************************************)
(* A ScoreHistory on its own: built by push, read by last_score and        *)
(* score_since.                                                            *)
(***************************************************************************)
ScoreHistory_push_call(score, time) ==
    /\ ~crashed
    /\ Len(score_history) < MaxHistSamples
    /\ score_history' = ScoreHistory_push(score_history, score, time)
    /\ call' = [op |-> "ScoreHistory::push", arg |-> <<score, time>>, ret |-> Ok(<< >>)]
    /\ UNCHANGED <<own_player_id, players, bullets, crashed, trajectory>>

last_score_call ==
    Read("last_score", score_history, last_score(score_history))

score_since_call(build, since) ==
    Read("score_since", [build |-> build, self |-> score_history, since |-> since],
         score_since(build, score_history, since))

\* the instants Instant::now() at which every start of the lookback window is met
Nows == {LOOKBACK_SECS * TicksPerSec + t : t \in (-1)..MaxHistTime}

Horizons ==
    {[far |-> FALSE, halves |-> k] : k \in 0..MaxHorizonHalves}
        \cup {[far |-> TRUE, halves |-> 0]}

project_call(build, now, after) ==
    Read("project", [self |-> score_history, now |-> now, after |-> after],
         project(build, score_history, now, after))

NextScore ==
    \/ \E score \in 0..MaxHistScore, time \in HistInstants :
           ScoreHistory_push_call(score, time)
    \/ last_score_call
    \/ \E build \in Builds, since \in HistInstants : score_since_call(build, since)
    \/ \E build \in Builds, now \in Nows, after \in Horizons : project_call(build, now, after)

SpecScore == Init /\ [][NextScore]_vars

(***************************************************************************)
(* The geometry on its own: velocity_to on any two positions and duration. *)
(***************************************************************************)
GeomPositions == {Position_new(x, y) : x \in 0..MaxGeomCoord, y \in 0..MaxGeomCoord}

velocity_to_call(self, dest, time) ==
    Read("velocity_to", [self |-> self, dest |-> dest, time |-> time],
         Ok(velocity_to(self, dest, time)))

Position_angle_to_call(self, other) ==
    /\ ~crashed
    /\ call' = [op |-> "Position::angle_to", arg |-> [self |-> self, other |-> other],
                ret |-> Ok(Position_angle_to(self, other))]
    /\ UNCHANGED <<own_player_id, players, bullets, crashed, trajectory, score_history>>

NextGeometry ==
    \/ \E self \in GeomPositions, dest \in GeomPositions, time \in HistInstants :
          velocity_to_call(self, dest, time)
    \/ \E self \in GeomPositions, other \in GeomPositions :
          Position_angle_to_call(self, other)

SpecGeometry == Init /\ [][NextGeometry]_vars

(***************************************************************************)
(* Properties.                                                             *)
(***************************************************************************)
Range(seq) == {seq[i] : i \in 1..Len(seq)}

\* the last call was a push_state that returned
Pushed == call.op = "push_state" /\ call.ret.tag = "ok"

\* new is old with one or more samples added at the end
Extends(old, new) == Len(new) > Len(old) /\ SubSeq(new, 1, Len(old)) = old

\* C1 (as claimed): a push_state that returns keeps every tracked player whose id is
\* not in snapshot.players in the map, unchanged; it never removes a player.
C1_AbsentPlayersStay ==
    [][(call'.op = "push_state" /\ call'.ret.tag = "ok") =>
          \A id \in DOMAIN players \ Range(call'.arg.player_ids) :
              id \in DOMAIN players' /\ players'[id] = players[id]]_vars

\* C1 (amended): after a push_state that returns, the player map holds exactly the
\* ids of snapshot.players; a tracked player the snapshot does not list is removed.
C1_MapIsSnapshotPlayers ==
    Pushed => DOMAIN players = Range(call.arg.player_ids)

C1_Witness ==
    /\ Pushed
    /\ \E id \in call.arg.tracked : id \notin Range(call.arg.player_ids)

\* C2: a push_state that returns only appends to the Trajectory and the ScoreHistory
\* of a player that was tracked before and is listed, once or several times, in the
\* snapshot: the old samples stay, in order, and the histories get longer.
C2_HistoriesAppendOnly ==
    [][(call'.op = "push_state" /\ call'.ret.tag = "ok") =>
          \A id \in DOMAIN players \cap Range(call'.arg.player_ids) :
              /\ id \in DOMAIN players'
              /\ Extends(players[id].trajectory, players'[id].trajectory)
              /\ Extends(players[id].score_history, players'[id].score_history)]_vars

\* C3: a push_state of a malformed snapshot (a listed player without a scoreboard
\* entry) leaves the player map and the bullet list as they were before the call.
C3_MalformedSnapshotChangesNothing ==
    [][(call'.op = "push_state" /\ call'.arg.malformed) =>
          (players' = players /\ bullets' = bullets)]_vars

\* C4: last_velocity() on a Trajectory of exactly one sample returns the zero vector
\* and completes normally.
C4_OneSampleVelocityIsZero ==
    (call.op = "last_velocity" /\ Len(trajectory) = 1) =>
        (call.ret = Ok(Velocity_zeros) /\ ~crashed)

\* the f32 n / d for any integers n and d
SignedRatio(n, d) == IF d < 0 THEN Ratio(-n, -d) ELSE Ratio(n, d)

\* (dest - self) / seconds, for a signed duration in ticks
ExactVelocity(self, dest, ticks) ==
    Velocity_new(SignedRatio((dest.x - self.x) * TicksPerSec, ticks),
                 SignedRatio((dest.y - self.y) * TicksPerSec, ticks))

\* C5: on a Trajectory of two or more samples whose last two timestamps differ,
\* last_velocity() is (p_last - p_prev) / (t_last - t_prev) of the last two samples.
C5_VelocityIsFiniteDifference ==
    (/\ call.op = "last_velocity"
     /\ Len(trajectory) >= 2
     /\ trajectory[Len(trajectory)][2] # trajectory[Len(trajectory) - 1][2]) =>
        LET last == trajectory[Len(trajectory)]
            prev == trajectory[Len(trajectory) - 1]
        IN  call.ret = Ok(ExactVelocity(prev[1], last[1], last[2] - prev[2]))

\* C6: velocity_to over a zero duration fails with DegenerateInterval; it does not
\* return a vector.
C6_ZeroDurationIsDegenerateInterval ==
    (call.op = "velocity_to" /\ call.arg.time = 0) =>
        call.ret.tag = "DegenerateInterval"

\* C7: player(id), own_player() and angle_to(target) on an id that is not tracked
\* return NotFound as a value and do not abort the program.
C7_UntrackedIsNotFound ==
    (\/ call.op = "player" /\ call.arg \notin DOMAIN players
     \/ call.op = "own_player" /\ own_player_id \notin DOMAIN players
     \/ /\ call.op = "angle_to"
        /\ (own_player_id \notin DOMAIN players \/ call.arg \notin DOMAIN players)) =>
        (call.ret.tag = "NotFound" /\ ~crashed)

\* the score of the sample pushed last among those at or before since, 0 without one
Baseline(self, since) ==
    LET at == {i \in 1..Len(self) : self[i][2] <= since}
    IN  IF at = {} THEN 0
        ELSE self[CHOOSE i \in at : \A j \in at : j <= i][1]

\* C8: on a non-empty ScoreHistory, score_since(t) is last_score() minus the score
\* of the sample pushed last among those with a timestamp at or before t, and
\* last_score() when there is none.
C8_ScoreSinceIsLastMinusBaseline ==
    (call.op = "score_since" /\ Len(score_history) > 0) =>
        call.ret = Ok(score_history[Len(score_history)][1]
                          - Baseline(score_history, call.arg.since))

C10_TrackedHistoriesNonEmpty ==
    /\ \A id \in DOMAIN players :
          /\ Len(players[id].trajectory) >= 1
          /\ Len(players[id].score_history) >= 1
          /\ last_position(players[id].trajectory).tag = "ok"
          /\ last_score(players[id].score_history).tag = "ok"
    /\ last_position(Trajectory_new).tag # "ok"
    /\ last_score(ScoreHistory_new).tag # "ok"

C10_Witness ==
    /\ Pushed
    /\ \E id \in DOMAIN players : id \notin call.arg.tracked
\* all samples of a trajectory are at the same position
Stationary(self) == \A i \in 1..Len(self) : self[i][1] = self[1][1]

\* the timestamps of a history do not decrease in sample order
NonDecreasing(self) == \A i \in 1..Len(self) - 1 : self[i][2] <= self[i + 1][2]

\* C11: ave_abs_velocity() of a Trajectory whose samples are all at the same position
\* is the zero vector for any number of samples and any non-decreasing timestamps.
C11_StationaryAverageIsZero ==
    (call.op = "ave_abs_velocity" /\ Stationary(trajectory) /\ NonDecreasing(trajectory)) =>
        call.ret = Ok(Velocity_zeros)
\* C12: only push_state changes the player map, the histories and the bullet list,
\* and only set_own_player_id the own id; every other call leaves them as they
\* were, and angle_to(target) called twice in a row returns the same result.
C12_ReadsChangeNothing ==
    [][/\ call'.op # "push_state" => (players' = players /\ bullets' = bullets)
       /\ call'.op # "set_own_player_id" => own_player_id' = own_player_id
       /\ (call.op = "angle_to" /\ call'.op = "angle_to" /\ call'.arg = call.arg)
              => call'.ret = call.ret]_vars

C12_Witness ==
    /\ call.op = "angle_to"
    /\ call.ret.tag = "ok"
    /\ bullets # << >>
    /\ Len(players[call.arg].trajectory) >= 2
\* the own player is tracked and all its samples are at one position
OwnStationary ==
    /\ own_player_id \in DOMAIN players
    /\ Stationary(players[own_player_id].trajectory)

\* a bullet on the own player's line, flying along +x towards it
HeadOn(bullet) ==
    /\ bullet.position.y = players[own_player_id].position.y
    /\ bullet.position.x < players[own_player_id].position.x
    /\ bullet.velocity.dy = F32(0)
    /\ bullet.velocity.dx[1] > 0

\* a bullet on the own player's line, flying along +x away from it
Receding(bullet) ==
    /\ bullet.position.y = players[own_player_id].position.y
    /\ bullet.position.x > players[own_player_id].position.x
    /\ bullet.velocity.dy = F32(0)
    /\ bullet.velocity.dx[1] > 0

\* the time d / s at which a head-on bullet reaches the own player, in seconds
TimeToReach(bullet) ==
    Ratio((players[own_player_id].position.x - bullet.position.x) * bullet.velocity.dx[2],
          bullet.velocity.dx[1])

\* the horizon until - last_update, in ticks, is at least the f32 seconds
HorizonCovers(until, seconds) ==
    (until - players[own_player_id].last_update) * seconds[2] >= seconds[1] * TicksPerSec

\* C13: with a stationary own player and hit radius 0, bullets_to_collide returns a
\* forecast that holds a bullet flying directly at the player, with the time d / s,
\* exactly when the horizon is at least d / s.
C13_HeadOnBulletIsForecast ==
    (call.op = "bullets_to_collide" /\ OwnStationary) =>
        /\ call.ret.tag = "ok"
        /\ \A i \in 1..Len(bullets) :
              HeadOn(bullets[i]) =>
                  (HorizonCovers(call.arg, TimeToReach(bullets[i]))
                     <=> [bullet |-> bullets[i], time |-> TimeToReach(bullets[i])]
                             \in Range(call.ret.val))

\* f <= g on finite f32
F32Leq(f, g) == f[1] * g[2] <= g[1] * f[2]

\* C14: with a tracked own player bullets_to_collide returns normally; its result is
\* in ascending order of predicted time, holds bullets of the bullet list only, and
\* holds no bullet that never comes closer than the hit radius (one flying away).
C14_ForecastIsSortedAndSound ==
    (call.op = "bullets_to_collide" /\ own_player_id \in DOMAIN players) =>
        /\ call.ret.tag = "ok"
        /\ \A i \in 1..Len(call.ret.val) - 1 :
              F32Leq(call.ret.val[i].time, call.ret.val[i + 1].time)
        /\ \A i \in 1..Len(call.ret.val) :
              /\ call.ret.val[i].bullet \in Range(bullets)
              /\ OwnStationary => ~Receding(call.ret.val[i].bullet)
\* C15: the timestamps of every tracked player's Trajectory and ScoreHistory do not
\* decrease in sample order.
C15_TimestampsNonDecreasing ==
    \A id \in DOMAIN players :
        /\ NonDecreasing(players[id].trajectory)
        /\ NonDecreasing(players[id].score_history)
\* the snapshot of the last push_state, read back from the state it left: the listed
\* players with their stored position and angle, their last scores, the recorded
\* bullet states.  Exact when the call returned and listed no id twice.
NoIdTwice(ids) == \A i, j \in 1..Len(ids) : ids[i] = ids[j] => i = j

LastSnapshot ==
    [players |-> [i \in 1..Len(call.arg.player_ids) |->
                     LET p == players[call.arg.player_ids[i]]
                     IN  [id |-> p.id, x |-> p.position.x, y |-> p.position.y,
                          angle |-> p.angle]],
     bullets |-> call.arg.bullets,
     scoreboard |-> [id \in DOMAIN players |->
                        players[id].score_history[Len(players[id].score_history)][1]]]

LastTime ==
    IF players = << >> THEN 0
    ELSE players[CHOOSE id \in DOMAIN players : TRUE].last_update

\* C16: a second push_state with the same snapshot and the same timestamp leaves the
\* player map, every history and the bullet list as the first one left them.
C16_SamePushTwiceIsOnce ==
    (Pushed /\ NoIdTwice(call.arg.player_ids)) =>
        LET again == push_players(players, LastSnapshot.players,
                                  LastSnapshot.scoreboard, LastTime)
        IN  /\ again.tag = "ok"
            /\ again.players = players
            /\ collect_bullets(LastSnapshot.bullets) = bullets
\* C17: project(horizon) is last_score() + trunc(recent_delta * horizon / lookback)
\* with recent_delta = last_score() minus the baseline at the start of the lookback
\* window, and it is a u32 that has not wrapped, for any history and horizon.
C17_ProjectIsLinearForecast ==
    (call.op = "project" /\ Len(score_history) > 0) =>
        /\ call.ret.tag = "ok"
        /\ ~call.arg.after.far =>
              LET last == score_history[Len(score_history)][1]
                  recent_delta == last - Baseline(score_history, lookback_start(call.arg.now))
              IN  call.ret.val = U32(last + (recent_delta * call.arg.after.halves) \div 2)
\* the point a - (b - a): b mirrored through a
Mirrored(a, b) == Position_new(2 * a.x - b.x, 2 * a.y - b.y)

\* C18: angle_to(a, b) is a full-circle bearing: for distinct points a and b it is
\* defined, and it differs from the bearing from a to b mirrored through a.
C18_MirroredBearingsDiffer ==
    (call.op = "Position::angle_to" /\ call.arg.self # call.arg.other) =>
        /\ call.ret.val.atan # NaN
        /\ call.ret.val # Position_angle_to(call.arg.self,
                                            Mirrored(call.arg.self, call.arg.other))

\* C19: score_since does not underflow: on a non-empty ScoreHistory the baseline
\* sample's score is at most last_score(), and the call returns a u32.
C19_ScoreSinceNeverUnderflows ==
    (call.op = "score_since" /\ Len(score_history) > 0) =>
        /\ Baseline(score_history, call.arg.since) <= score_history[Len(score_history)][1]
        /\ call.ret.tag = "ok"
\* C20: every entry (k, p) of the player map has k = p.id, p.position equal to
\* p.trajectory.last_position(), a trajectory and a score history of the same length
\* with pairwise equal timestamps, and p.last_update equal to the last timestamp.
C20_PlayerEntriesConsistent ==
    \A k \in DOMAIN players :
        LET p == players[k]
        IN  /\ p.id = k
            /\ last_position(p.trajectory) = Ok(p.position)
            /\ Len(p.trajectory) = Len(p.score_history)
            /\ \A i \in 1..Len(p.trajectory) : p.trajectory[i][2] = p.score_history[i][2]
            /\ p.trajectory[Len(p.trajectory)][2] = p.last_update

\* a tracked player has moved between two pushes
C20_Witness ==
    /\ Pushed
    /\ \E k \in DOMAIN players :
          /\ Len(players[k].trajectory) >= 2
          /\ players[k].trajectory[1][1] # players[k].position

====
